---- MODULE Spec2Model ----
(***************************************************************************)
(* The per-key sliding-window request limiter of the middleware package    *)
(* (rateLimiter, newRateLimiter, allow, cleanup, RateLimit).               *)
(*                                                                         *)
(* Request goroutines (Procs) run the RateLimit handler; one background    *)
(* goroutine runs cleanup (the reaper).  Time is a monotonic integer clock *)
(* (time.Now carries a monotonic reading, and After compares it).          *)
(***************************************************************************)
EXTENDS Integers, Sequences, FiniteSets, TLC

\* ---------------------------------------------------------------- bounds
\* Calls begun in a run of two request goroutines, and the last instant the
\* clock reaches in it.
MaxCalls == 3
MaxTime == 2
\* The same for a run of one request goroutine.
MaxSeqCalls == 3
MaxSeqTime == 3
\* The same for a run of one request goroutine serving two client addresses
\* and two paths.
MaxMwCalls == 2
MaxMwTime == 1
\* The same for a fairly scheduled run of two request goroutines.
MaxLiveCalls == 2
MaxLiveTime == 1
\* The same for a fairly scheduled run of one request goroutine, long enough
\* for a key to expire and two more ticks to come due.
MaxReapCalls == 2
MaxReapTime == 3

\* Request goroutines, client addresses and authenticated identities.
Procs == {"p1", "p2"}
IPs == {"ip1", "ip2"}
Users == {"u1"}
NoUser == "none"
Keys == IPs \cup Users

\* Request paths: the two the tests exempt from limiting, and a limited one.
Whitelisted == {"/health", "/ping"}
Paths == Whitelisted \cup {"/api/test"}

\* The limit and window handed to newRateLimiter: any int, any Duration.
LimitValues == {0 - 1, 0, 1, 2}
WindowValues == {0 - 1, 0, 1, 2}
\* Those the limiter is meant for: both positive.
ValidLimits == {l \in LimitValues : l > 0}
ValidWindows == {w \in WindowValues : w > 0}

Free == "free"
Reaper == "reaper"

VARIABLES
    limit,       \* rl.limit
    window,      \* rl.window
    requests,    \* rl.requests: a function whose DOMAIN is the keys in the map
    mu,          \* rl.mu: Free, or the goroutine holding it
    clock,       \* the instant time.Now() returns
    pc,          \* per request goroutine: position in the RateLimit handler
    key,         \* per request goroutine: the key computed by the handler
    now,         \* per request goroutine: allow's local now
    valid,       \* per request goroutine: allow's local validRequests
    result,      \* per request goroutine: what allow returned
    resp,        \* per request goroutine: status, code, Retry-After header,
                 \* aborted, handled
    req,         \* per request goroutine: the request until its call is decided
    rpc,         \* the cleanup goroutine's position
    tickerNext,  \* when the ticker fires next
    tickerC,     \* ticks buffered in ticker.C (capacity 1)
    crashed,     \* the process died of an unrecovered panic
    env,         \* the environment of the run: who calls, how often, how long
    rnow,        \* the cleanup goroutine's local now
    seen,        \* history: Len(hist[key]) when the goroutine's call began
    hist         \* history: per key, every allow decision in the order made

vars == <<limit, window, requests, mu, clock, pc, key, now, valid, result,
          resp, req, rpc, tickerNext, tickerC, crashed, env, rnow, seen,
          hist>>

limiterVars == <<limit, window, env>>
procVars == <<pc, key, now, valid, result, resp, req, seen>>
reaperVars == <<rpc, tickerNext, tickerC, rnow>>

\* ------------------------------------------------------------ pure helpers

\* Mutant: a timestamp exactly at the window start is kept.
AfterOrEqual(t, u) == t >= u

\* t.After(u)
After(t, u) == t > u

\* Mutant: the window start computed with the sign of the window flipped.
WindowStartForward(n, w) == n + w

\* now.Add(-rl.window)
WindowStart(n, w) == n - w

\* Mutant: the filter loop keeps every timestamp.
PruneNone(reqs, windowStart) == reqs

\* The filter loop shared by allow and cleanup: the timestamps of reqs that
\* are After(windowStart), in order.
Prune(reqs, windowStart) == SelectSeq(reqs, LAMBDA t : After(t, windowStart))

\* Mutant: one ledger shared by all keys (the lookup ignores the key).
LookupAny(m, k) ==
    IF DOMAIN m = {} THEN <<>> ELSE m[CHOOSE x \in DOMAIN m : TRUE]

\* rl.requests[key] of a Go map: the zero value (nil slice) when absent.
Lookup(m, k) == IF k \in DOMAIN m THEN m[k] ELSE <<>>

\* Mutant: the ledger is written to every entry of the map.
StoreEverywhere(m, k, v) == [x \in DOMAIN m \cup {k} |-> v]

\* Mutant: the ledger is never written back.
StoreNothing(m, k, v) == m

\* rl.requests[key] = v
Store(m, k, v) == [x \in DOMAIN m \cup {k} |-> IF x = k THEN v ELSE m[x]]

\* delete(rl.requests, key)
Delete(m, k) == [x \in DOMAIN m \ {k} |-> m[x]]

\* Mutant: the capacity test off by one.
AtLimitOffByOne(validRequests, lim) == Len(validRequests) > lim

\* len(validRequests) >= rl.limit
AtLimit(validRequests, lim) == Len(validRequests) >= lim

\* Mutant: the key is always the client address.
KeyOfAddress(ip, uid) == ip

\* The key RateLimit passes to allow: user_id when set, else c.ClientIP().
KeyOf(ip, uid) == IF uid # NoUser THEN uid ELSE ip

\* The response before anything is written: no status, no body, and
\* Header().Get("Retry-After") is the empty string.
NoResp == [status |-> 0, code |-> "", retryAfter |-> "", aborted |-> FALSE,
           handled |-> FALSE]

\* No request in hand.
NoReq == [ip |-> "", uid |-> NoUser, path |-> ""]

\* ------------------------------------------------------------------- Init

\* After newRateLimiter(limit, window): an empty map, the cleanup goroutine
\* spawned but not yet run.
Constructed ==
    /\ requests = <<>>
    /\ mu = Free
    /\ clock = 0
    /\ pc = [p \in Procs |-> "idle"]
    /\ key = [p \in Procs |-> ""]
    /\ now = [p \in Procs |-> 0]
    /\ valid = [p \in Procs |-> <<>>]
    /\ result = [p \in Procs |-> FALSE]
    /\ resp = [p \in Procs |-> NoResp]
    /\ req = [p \in Procs |-> NoReq]
    /\ rpc = "start"
    /\ tickerNext = 0
    /\ tickerC = 0
    /\ crashed = FALSE
    /\ seen = [p \in Procs |-> 0]
    /\ rnow = 0
    /\ hist = [k \in Keys |-> <<>>]

\* Two request goroutines serving one client address, with and without an
\* identity, on a limiter built with a positive limit and window.
Init ==
    /\ Constructed
    /\ limit \in ValidLimits
    /\ window \in ValidWindows
    /\ env = [procs |-> Procs, ips |-> {"ip1"}, users |-> Users,
              paths |-> {"/api/test"}, calls |-> MaxCalls, time |-> MaxTime]

\* One request goroutine, on a limiter built with any limit and window.
SeqInit ==
    /\ Constructed
    /\ limit \in LimitValues
    /\ window \in WindowValues
    /\ env = [procs |-> {"p1"}, ips |-> {"ip1"}, users |-> Users,
              paths |-> {"/api/test"}, calls |-> MaxSeqCalls,
              time |-> MaxSeqTime]

\* One request goroutine serving requests from two client addresses, with and
\* without an identity, to a whitelisted and to a limited path, the
\* middleware installed for every route (router.Use).
MwInit ==
    /\ Constructed
    /\ limit \in ValidLimits
    /\ window \in ValidWindows
    /\ env = [procs |-> {"p1"}, ips |-> IPs, users |-> Users,
              paths |-> {"/health", "/api/test"}, calls |-> MaxMwCalls,
              time |-> MaxMwTime]

\* Two request goroutines, as in Init, in a shorter run.
LiveInit ==
    /\ Constructed
    /\ limit \in ValidLimits
    /\ window \in ValidWindows
    /\ env = [procs |-> Procs, ips |-> {"ip1"}, users |-> Users,
              paths |-> {"/api/test"}, calls |-> MaxLiveCalls,
              time |-> MaxLiveTime]

\* One request goroutine, on a limiter built with a positive limit and
\* window, in a run long enough for several reaper cycles.
ReapInit ==
    /\ Constructed
    /\ limit \in ValidLimits
    /\ window \in ValidWindows
    /\ env = [procs |-> {"p1"}, ips |-> {"ip1"}, users |-> Users,
              paths |-> {"/api/test"}, calls |-> MaxReapCalls,
              time |-> MaxReapTime]

RECURSIVE SumLen(_, _)
SumLen(f, ks) ==
    IF ks = {} THEN 0
    ELSE LET k == CHOOSE x \in ks : TRUE IN Len(f[k]) + SumLen(f, ks \ {k})

\* Calls begun so far (decided or still undecided).
Undecided == {p \in Procs : pc[p] \in {"lock", "prune", "decide"}}
Begun == SumLen(hist, Keys) + Cardinality(Undecided)

\* ----------------------------------------------------- the RateLimit handler

\* A request enters the handler: the key is computed and allow is called.
HandlerStart(p, ip, uid, path) ==
    /\ ~crashed
    /\ p \in env.procs /\ ip \in env.ips /\ uid \in env.users \cup {NoUser}
    /\ path \in env.paths
    /\ pc[p] \in {"idle", "done"}
    /\ Begun < env.calls
    /\ key' = [key EXCEPT ![p] = KeyOf(ip, uid)]
    /\ pc' = [pc EXCEPT ![p] = "lock"]
    /\ resp' = [resp EXCEPT ![p] = NoResp]
    /\ req' = [req EXCEPT ![p] = [ip |-> ip, uid |-> uid, path |-> path]]
    /\ result' = [result EXCEPT ![p] = FALSE]
    /\ seen' = [seen EXCEPT ![p] = Len(hist[KeyOf(ip, uid)])]
    /\ UNCHANGED <<limiterVars, requests, mu, clock, now, valid, reaperVars,
                   crashed, hist>>

\* Mutant: allow enters without waiting for the lock.
AllowLockNoWait(p) ==
    /\ ~crashed
    /\ pc[p] = "lock"
    /\ mu' = p
    /\ pc' = [pc EXCEPT ![p] = "prune"]
    /\ UNCHANGED <<limiterVars, requests, clock, key, now, valid, result, resp,
                   req, seen, reaperVars, crashed, hist>>

\* rl.mu.Lock()
AllowLock(p) ==
    /\ ~crashed
    /\ pc[p] = "lock"
    /\ mu = Free
    /\ mu' = p
    /\ pc' = [pc EXCEPT ![p] = "prune"]
    /\ UNCHANGED <<limiterVars, requests, clock, key, now, valid, result, resp,
                   req, seen, reaperVars, crashed, hist>>

\* Mutant: now is an instant read before the lock was acquired.
AllowPruneEarlyNow(p) ==
    /\ ~crashed
    /\ pc[p] = "prune"
    /\ \E n \in 0..clock :
          /\ now' = [now EXCEPT ![p] = n]
          /\ valid' = [valid EXCEPT ![p] =
                          Prune(Lookup(requests, key[p]),
                                WindowStart(n, window))]
    /\ pc' = [pc EXCEPT ![p] = "decide"]
    /\ UNCHANGED <<limiterVars, requests, mu, clock, key, result, resp, req,
                   seen, reaperVars, crashed, hist>>

\* now := time.Now(); the filter loop over rl.requests[key].
AllowPrune(p) ==
    /\ ~crashed
    /\ pc[p] = "prune"
    /\ now' = [now EXCEPT ![p] = clock]
    /\ valid' = [valid EXCEPT ![p] =
                    Prune(Lookup(requests, key[p]), WindowStart(clock, window))]
    /\ pc' = [pc EXCEPT ![p] = "decide"]
    /\ UNCHANGED <<limiterVars, requests, mu, clock, key, result, resp, req,
                   seen, reaperVars, crashed, hist>>

\* Mutant: the call's instant is appended whatever the decision.
AllowDecideRecordsAll(p) ==
    /\ ~crashed
    /\ pc[p] = "decide"
    /\ LET ok == ~AtLimit(valid[p], limit)
       IN /\ requests' = Store(requests, key[p], Append(valid[p], now[p]))
          /\ result' = [result EXCEPT ![p] = ok]
          /\ hist' = [hist EXCEPT ![key[p]] =
                          Append(@, [t |-> now[p], ok |-> ok, ip |-> req[p].ip,
                                     uid |-> req[p].uid,
                                     path |-> req[p].path])]
    /\ req' = [req EXCEPT ![p] = NoReq]
    /\ valid' = [valid EXCEPT ![p] = <<>>]
    /\ now' = [now EXCEPT ![p] = 0]
    /\ pc' = [pc EXCEPT ![p] = "unlock"]
    /\ UNCHANGED <<limiterVars, mu, clock, key, resp, seen, reaperVars,
                   crashed>>

\* The capacity decision and the store.
AllowDecide(p) ==
    /\ ~crashed
    /\ pc[p] = "decide"
    /\ LET ok == ~AtLimit(valid[p], limit)
           v == IF ok THEN Append(valid[p], now[p]) ELSE valid[p]
       IN /\ requests' = Store(requests, key[p], v)
          /\ result' = [result EXCEPT ![p] = ok]
          /\ hist' = [hist EXCEPT ![key[p]] =
                          Append(@, [t |-> now[p], ok |-> ok, ip |-> req[p].ip,
                                     uid |-> req[p].uid,
                                     path |-> req[p].path])]
    /\ req' = [req EXCEPT ![p] = NoReq]
    /\ valid' = [valid EXCEPT ![p] = <<>>]
    /\ now' = [now EXCEPT ![p] = 0]
    /\ pc' = [pc EXCEPT ![p] = "unlock"]
    /\ UNCHANGED <<limiterVars, mu, clock, key, resp, seen, reaperVars,
                   crashed>>

\* Mutant: allow returns without releasing the lock.
AllowUnlockMissing(p) ==
    /\ ~crashed
    /\ pc[p] = "unlock"
    /\ pc' = [pc EXCEPT ![p] = "respond"]
    /\ key' = [key EXCEPT ![p] = ""]
    /\ seen' = [seen EXCEPT ![p] = 0]
    /\ UNCHANGED <<limiterVars, requests, mu, clock, now, valid, result, resp,
                   req, reaperVars, crashed, hist>>

\* The deferred rl.mu.Unlock(); allow returns.
AllowUnlock(p) ==
    /\ ~crashed
    /\ pc[p] = "unlock"
    /\ mu' = Free
    /\ pc' = [pc EXCEPT ![p] = "respond"]
    /\ key' = [key EXCEPT ![p] = ""]
    /\ seen' = [seen EXCEPT ![p] = 0]
    /\ UNCHANGED <<limiterVars, requests, clock, now, valid, result, resp,
                   req, reaperVars, crashed, hist>>

\* Mutant: the 429 is written but the chain is not aborted.
RejectNoAbort(p) ==
    /\ ~crashed
    /\ pc[p] = "respond"
    /\ ~result[p]
    /\ resp' = [resp EXCEPT ![p] = [status |-> 429,
                                    code |-> "RATE_LIMIT_EXCEEDED",
                                    retryAfter |-> "",
                                    aborted |-> FALSE, handled |-> TRUE]]
    /\ pc' = [pc EXCEPT ![p] = "next"]
    /\ UNCHANGED <<limiterVars, requests, mu, clock, key, now, valid, result,
                   req, seen, reaperVars, crashed, hist>>

\* !limiter.allow(key): c.JSON(429, ...), c.Abort(), return.
Reject(p) ==
    /\ ~crashed
    /\ pc[p] = "respond"
    /\ ~result[p]
    /\ resp' = [resp EXCEPT ![p] = [status |-> 429,
                                    code |-> "RATE_LIMIT_EXCEEDED",
                                    retryAfter |-> "",
                                    aborted |-> TRUE, handled |-> FALSE]]
    /\ pc' = [pc EXCEPT ![p] = "done"]
    /\ UNCHANGED <<limiterVars, requests, mu, clock, key, now, valid, result,
                   req, seen, reaperVars, crashed, hist>>

\* c.Next(): the downstream handler starts.
CallNext(p) ==
    /\ ~crashed
    /\ pc[p] = "respond"
    /\ result[p]
    /\ resp' = [resp EXCEPT ![p].handled = TRUE]
    /\ pc' = [pc EXCEPT ![p] = "next"]
    /\ UNCHANGED <<limiterVars, requests, mu, clock, key, now, valid, result,
                   req, seen, reaperVars, crashed, hist>>

\* The downstream handler answers and c.Next() returns.
NextReturns(p) ==
    /\ ~crashed
    /\ pc[p] = "next"
    /\ resp' = [resp EXCEPT ![p].status = 200]
    /\ pc' = [pc EXCEPT ![p] = "done"]
    /\ UNCHANGED <<limiterVars, requests, mu, clock, key, now, valid, result,
                   req, seen, reaperVars, crashed, hist>>

\* ------------------------------------------------------------- the reaper

\* ticker := time.NewTicker(rl.window), which panics on a non-positive
\* interval; a panic in this goroutine is not recovered and ends the process.
ReaperStart ==
    /\ ~crashed
    /\ rpc = "start"
    /\ IF window <= 0
       THEN /\ crashed' = TRUE
            /\ rpc' = "dead"
            /\ UNCHANGED tickerNext
       ELSE /\ tickerNext' = clock + window
            /\ rpc' = "wait"
            /\ UNCHANGED crashed
    /\ UNCHANGED <<limiterVars, requests, mu, clock, procVars, tickerC, hist,
                   rnow>>

TickerDue == rpc \notin {"start", "dead"} /\ clock >= tickerNext

\* Mutant: the period of the ticker is one instant longer than the window.
TickerFireDrift ==
    /\ ~crashed
    /\ TickerDue
    /\ tickerC' = 1
    /\ tickerNext' = tickerNext + window + 1
    /\ UNCHANGED <<limiterVars, requests, mu, clock, procVars, rpc, crashed,
                   hist, rnow>>

\* The runtime timer: a tick is sent to ticker.C unless one is buffered.
TickerFire ==
    /\ ~crashed
    /\ TickerDue
    /\ tickerC' = 1
    /\ tickerNext' = tickerNext + window
    /\ UNCHANGED <<limiterVars, requests, mu, clock, procVars, rpc, crashed,
                   hist, rnow>>

\* for range ticker.C: a tick is received.
ReaperTick ==
    /\ ~crashed
    /\ rpc = "wait"
    /\ tickerC = 1
    /\ tickerC' = 0
    /\ rpc' = "lock"
    /\ UNCHANGED <<limiterVars, requests, mu, clock, procVars, tickerNext,
                   crashed, hist, rnow>>

\* rl.mu.Lock()
ReaperLock ==
    /\ ~crashed
    /\ rpc = "lock"
    /\ mu = Free
    /\ mu' = Reaper
    /\ rpc' = "sweep"
    /\ UNCHANGED <<limiterVars, requests, clock, procVars, tickerNext, tickerC,
                   crashed, hist, rnow>>

\* Mutant: the loop deletes every key it visits.
SweepKeyDrop(m, k, windowStart) == Delete(m, k)

\* Mutant: the loop stores the pruned ledger even when it is empty.
SweepKeyKeep(m, k, windowStart) == Store(m, k, Prune(m[k], windowStart))

\* What the loop body does to one key's entry.
SweepKey(m, k, windowStart) ==
    IF Len(Prune(m[k], windowStart)) = 0
    THEN Delete(m, k)
    ELSE Store(m, k, Prune(m[k], windowStart))

\* Mutant: the loop stops after the first key it visits.
SweepOne(m, ks, windowStart) ==
    IF ks = {} THEN m
    ELSE SweepKey(m, CHOOSE x \in ks : TRUE, windowStart)

\* The loop over the whole map (the entries are independent of one another,
\* so the iteration order does not matter).
RECURSIVE SweepAll(_, _, _)
SweepAll(m, ks, windowStart) ==
    IF ks = {} THEN m
    ELSE LET k == CHOOSE x \in ks : TRUE
         IN SweepAll(SweepKey(m, k, windowStart), ks \ {k}, windowStart)

\* now := time.Now() and the loop over rl.requests.
ReaperSweep ==
    /\ ~crashed
    /\ rpc = "sweep"
    /\ requests' = SweepAll(requests, DOMAIN requests,
                            WindowStart(clock, window))
    /\ rnow' = clock
    /\ rpc' = "unlock"
    /\ UNCHANGED <<limiterVars, mu, clock, procVars, tickerNext, tickerC,
                   crashed, hist>>

\* rl.mu.Unlock(), back to the range.
ReaperUnlock ==
    /\ ~crashed
    /\ rpc = "unlock"
    /\ mu' = Free
    /\ rpc' = "wait"
    /\ rnow' = 0
    /\ UNCHANGED <<limiterVars, requests, clock, procVars, tickerNext, tickerC,
                   crashed, hist>>

\* ---------------------------------------------------------------- the clock

\* Time passes.  The cleanup goroutine has started by the first instant, and
\* a due timer fires before the clock moves on.
Tick ==
    /\ ~crashed
    /\ clock < env.time
    /\ rpc # "start"
    /\ ~TickerDue
    /\ clock' = clock + 1
    /\ UNCHANGED <<limiterVars, requests, mu, procVars, reaperVars, crashed,
                   hist>>

Next ==
    \/ \E p \in Procs, ip \in IPs, uid \in Users \cup {NoUser},
          path \in Paths :
          HandlerStart(p, ip, uid, path)
    \/ \E p \in Procs : AllowLock(p)
    \/ \E p \in Procs : AllowPrune(p)
    \/ \E p \in Procs : AllowDecide(p)
    \/ \E p \in Procs : AllowUnlock(p)
    \/ \E p \in Procs : Reject(p)
    \/ \E p \in Procs : CallNext(p)
    \/ \E p \in Procs : NextReturns(p)
    \/ ReaperStart
    \/ TickerFire
    \/ ReaperTick
    \/ ReaperLock
    \/ ReaperSweep
    \/ ReaperUnlock
    \/ Tick

Spec == Init /\ [][Next]_vars

SeqSpec == SeqInit /\ [][Next]_vars

MwSpec == MwInit /\ [][Next]_vars

ShortSpec == LiveInit /\ [][Next]_vars

\* Scheduling.  The Go scheduler is preemptive, so a goroutine that can take
\* a step takes it (weak fairness on what it does between Lock and Unlock
\* and on the receive from ticker.C); sync.Mutex hands the lock to a waiter
\* that has been passed over (starvation mode), so a Lock that can succeed
\* again and again succeeds (strong fairness); the runtime delivers due
\* ticks.
Fairness ==
    /\ \A p \in Procs :
          /\ SF_vars(AllowLock(p))
          /\ WF_vars(AllowPrune(p) \/ AllowDecide(p) \/ AllowUnlock(p))
    /\ SF_vars(ReaperLock)
    /\ WF_vars(ReaperStart \/ ReaperTick \/ ReaperSweep \/ ReaperUnlock)
    /\ WF_vars(TickerFire)

FairSpec == LiveInit /\ [][Next]_vars /\ Fairness

ReapSpec == ReapInit /\ [][Next]_vars /\ Fairness

\* ------------------------------------------------- reading the history

\* The limiter was built as it is meant to be.
ValidConfig == limit > 0 /\ window > 0

\* The indices of h whose call was admitted.
Admitted(h) == {i \in DOMAIN h : h[i].ok}

\* The admissions of h before index i that are inside the window trailing
\* the instant t (strictly after t - window).
InWindowBefore(h, i, t) ==
    {m \in 1..(i - 1) : h[m].ok /\ h[m].t > t - window}

\* The calls a..b of h all happen within one window.
OneWindow(h, a, b) == h[b].t - h[a].t < window

\* What one caller alone, with no other key and no reaper, is answered for
\* calls at the instants ts: the ledger is the list of admission instants.
RECURSIVE Alone(_, _, _)
Alone(ts, i, ledger) ==
    IF i > Len(ts) THEN <<>>
    ELSE LET v == SelectSeq(ledger, LAMBDA t : t > ts[i] - window)
             ok == Len(v) < limit
         IN <<ok>> \o Alone(ts, i + 1, IF ok THEN Append(v, ts[i]) ELSE v)

\* ------------------------------------------------------------------ claims

\* C1: for every key, in every interleaving of the request goroutines and
\* the reaper, the admissions granted inside any interval of length window
\* (from an instant s up to, not including, s + window) number at most limit.
C1_AtMostLimitPerWindow ==
    \A k \in Keys : \A s \in 0..clock :
        Cardinality({i \in Admitted(hist[k]) :
                        s <= hist[k][i].t /\ hist[k][i].t < s + window})
            <= limit

\* C1 witness: a key was admitted up to its limit and then refused while
\* another goroutine was waiting for the lock.
C1_Witness ==
    \E k \in Keys, p \in Procs :
        /\ limit >= 1
        /\ pc[p] = "lock"
        /\ Cardinality(Admitted(hist[k])) = limit
        /\ Len(hist[k]) > limit
        /\ ~hist[k][Len(hist[k])].ok

\* C2: when the n calls made for a key since it was first used all fall in
\* one window and n > limit, exactly limit of them were admitted and
\* n - limit refused, however the callers were interleaved.
C2_ExactlyLimitAdmitted ==
    \A k \in Keys :
        LET h == hist[k]
            n == Len(h)
        IN (n > limit /\ OneWindow(h, 1, n)) =>
              /\ Cardinality(Admitted(h)) = limit
              /\ Cardinality(DOMAIN h \ Admitted(h)) = n - limit

\* C2 witness: two goroutines called for the same fresh key at the same time
\* (the second decision was made while the first caller's call was open),
\* with more calls than the limit.
C2_Witness ==
    \E q \in Procs :
        /\ pc[q] = "unlock"
        /\ limit >= 1
        /\ seen[q] = 0
        /\ Len(hist[key[q]]) = limit + 1
        /\ OneWindow(hist[key[q]], 1, limit + 1)
        /\ Cardinality(Admitted(hist[key[q]])) = limit

\* C3: when a goroutine q has just decided a call for a key, and the decision
\* before it for that key was made by a racing call (one decided after q's
\* call began) at a moment the key had exactly one slot left, and nothing
\* has expired in between, then the racing call was admitted and q's refused.
C3_RaceOneSlot ==
    \A q \in Procs :
        pc[q] = "unlock" =>
            LET h == hist[key[q]]
                j == Len(h)
                i == j - 1
            IN (/\ j >= 2
                /\ seen[q] < j - 1
                /\ Cardinality(InWindowBefore(h, i, h[i].t)) = limit - 1
                /\ InWindowBefore(h, i, h[j].t) = InWindowBefore(h, i, h[i].t)
                /\ h[i].t > h[j].t - window)
               => (h[i].ok /\ ~h[j].ok)

\* C3 witness: such a race happened.
C3_Witness ==
    \E q \in Procs :
        /\ pc[q] = "unlock"
        /\ LET h == hist[key[q]]
               j == Len(h)
           IN /\ j >= 2
              /\ seen[q] < j - 1
              /\ Cardinality(InWindowBefore(h, j - 1, h[j - 1].t)) = limit - 1
              /\ InWindowBefore(h, j - 1, h[j].t)
                    = InWindowBefore(h, j - 1, h[j - 1].t)
              /\ h[j - 1].t > h[j].t - window
              /\ h[j - 1].ok /\ ~h[j].ok

\* C4: for calls a..b of a key that all fall in one window, the key having
\* no admission in the window trailing call a, exactly the first limit of
\* them (all of them if there are fewer) are admitted and the rest refused.
C4_FirstLimitAdmitted ==
    \A k \in Keys :
        LET h == hist[k]
        IN \A a \in DOMAIN h : \A b \in a..Len(h) :
              (InWindowBefore(h, a, h[a].t) = {} /\ OneWindow(h, a, b)) =>
                  \A i \in a..b : h[i].ok <=> (i - a + 1 <= limit)

\* C4 witness: limit admissions followed by a refusal, all in one window.
C4_Witness ==
    \E k \in Keys :
        /\ limit = 2
        /\ Len(hist[k]) = 3
        /\ OneWindow(hist[k], 1, 3)
        /\ hist[k][1].ok /\ hist[k][2].ok /\ ~hist[k][3].ok

\* C5 as stated (limit and window positive): of n > limit calls of a key in
\* one window at most limit are admitted, and the call at position n - limit
\* and every later one is refused.
C5_AsStated ==
    \A k \in Keys :
        LET h == hist[k]
        IN \A a \in DOMAIN h : \A b \in a..Len(h) :
              LET n == b - a + 1
              IN (ValidConfig /\ n > limit /\ OneWindow(h, a, b)) =>
                    /\ Cardinality(Admitted(h) \cap (a..b)) <= limit
                    /\ \A i \in a..b : (i - a + 1 >= n - limit) => ~h[i].ok

\* C5 amended (limit and window positive): of n > limit calls of a key in
\* one window at most limit are admitted, every call after the limit-th
\* admitted one is refused, and so at least n - limit are refused.
C5_AfterLimitRefused ==
    \A k \in Keys :
        LET h == hist[k]
        IN \A a \in DOMAIN h : \A b \in a..Len(h) :
              LET n == b - a + 1
                  adm == Admitted(h) \cap (a..b)
              IN (ValidConfig /\ n > limit /\ OneWindow(h, a, b)) =>
                    /\ Cardinality(adm) <= limit
                    /\ \A i \in a..b :
                          Cardinality({m \in adm : m < i}) >= limit => ~h[i].ok
                    /\ Cardinality((a..b) \ adm) >= n - limit

\* C5 witness: more calls than the limit in one window, the limit reached.
C5_Witness ==
    \E k \in Keys :
        /\ limit >= 1
        /\ Len(hist[k]) = limit + 1
        /\ OneWindow(hist[k], 1, limit + 1)
        /\ Cardinality(Admitted(hist[k])) = limit
        /\ ~hist[k][limit + 1].ok

\* C6: if a key's calls a..a+limit-1 are exactly its calls at an instant t0,
\* all admitted, and its next call comes strictly later than t0 + window,
\* that call is admitted.
C6_AdmittedAfterWindow ==
    \A k \in Keys :
        LET h == hist[k]
        IN \A a \in DOMAIN h :
              LET j == a + limit
              IN (/\ limit >= 1
                  /\ j \in DOMAIN h
                  /\ \A i \in a..(j - 1) : h[i].ok /\ h[i].t = h[a].t
                  /\ \A i \in 1..(a - 1) : h[i].t < h[a].t
                  /\ h[j].t > h[a].t + window)
                 => h[j].ok

\* C6 witness: limit calls at one instant, the next one after the window,
\* admitted.
C6_Witness ==
    \E k \in Keys :
        /\ limit = 2 /\ window >= 1
        /\ Len(hist[k]) = 3
        /\ hist[k][1].ok /\ hist[k][2].ok /\ hist[k][3].ok
        /\ hist[k][1].t = hist[k][2].t
        /\ hist[k][3].t > hist[k][1].t + window

\* C7: the answers a key's calls get depend only on the instants of that
\* key's calls: they are the answers the key would get alone, whatever calls
\* for other keys (and reaper cycles) are interleaved with them.
C7_KeyIsolation ==
    \A k \in Keys :
        [i \in DOMAIN hist[k] |-> hist[k][i].ok]
            = Alone([i \in DOMAIN hist[k] |-> hist[k][i].t], 1, <<>>)

\* C7 witness: one key is refused while another key, called concurrently,
\* is admitted at the same instant.
C7_Witness ==
    \E a \in Keys, b \in Keys, q \in Procs :
        /\ a # b
        /\ limit >= 1
        /\ pc[q] = "unlock" /\ key[q] = a
        /\ hist[a] # <<>> /\ hist[a][Len(hist[a])].ok
        /\ hist[b] # <<>> /\ ~hist[b][Len(hist[b])].ok
        /\ hist[b][Len(hist[b])].t = hist[a][Len(hist[a])].t
        /\ \E p \in Procs : p # q /\ pc[p] = "respond" /\ ~result[p]

\* C8: when a reaper cycle has finished its pass, a key none of whose
\* admissions is still inside the window (as of the instant the cycle read)
\* is not in the map.
C8_ExpiredKeyRemoved ==
    rpc = "unlock" =>
        \A k \in Keys :
            (\A i \in Admitted(hist[k]) : ~(hist[k][i].t > rnow - window))
                => k \notin DOMAIN requests

\* C8 witness: a key that was admitted earlier is gone after the pass.
C8_Witness ==
    /\ rpc = "unlock"
    /\ \E k \in Keys :
          /\ Admitted(hist[k]) # {}
          /\ \A i \in Admitted(hist[k]) : ~(hist[k][i].t > rnow - window)
          /\ k \notin DOMAIN requests

\* C9 as stated: a limiter with limit <= 0 or window <= 0 is never there to
\* serve an allow call.
C9_NoLimiterWithBadConfig ==
    (limit <= 0 \/ window <= 0) =>
        /\ \A k \in Keys : hist[k] = <<>>
        /\ \A p \in Procs : pc[p] \notin {"prune", "decide", "unlock"}

\* C10: a request whose allow decision was false is answered 429 with code
\* RATE_LIMIT_EXCEEDED, its chain aborted and the next handler never run;
\* a request whose decision was true goes to the next handler and gets no
\* 429 from the limiter.
C10_RejectAborts ==
    \A p \in Procs :
        /\ pc[p] = "next" => result[p]
        /\ (pc[p] = "done" /\ ~result[p]) =>
              /\ resp[p].status = 429
              /\ resp[p].code = "RATE_LIMIT_EXCEEDED"
              /\ resp[p].aborted
              /\ ~resp[p].handled
        /\ (pc[p] \in {"next", "done"} /\ result[p]) =>
              /\ resp[p].handled
              /\ resp[p].status # 429
              /\ ~resp[p].aborted

\* C10 witness: one request was refused with 429, another was handled.
C10_Witness ==
    \E p \in Procs, q \in Procs :
        /\ pc[p] = "done" /\ ~result[p] /\ resp[p].status = 429
        /\ pc[q] = "done" /\ result[q] /\ resp[q].handled

\* C11 as stated: every response with status 429 written because the request
\* exceeded the limit carries a non-empty Retry-After header.
C11_RetryAfterOn429 ==
    \A p \in Procs :
        (resp[p].status = 429 /\ resp[p].code = "RATE_LIMIT_EXCEEDED") =>
            resp[p].retryAfter # ""

\* C12 as stated: a request to a whitelisted path is never refused by the
\* limiter, and it consumes no quota: every request to another path is
\* admitted exactly when fewer than limit earlier requests of its key to
\* non-whitelisted paths were admitted inside its window.
C12_WhitelistedPathsFree ==
    \A k \in Keys :
        LET h == hist[k]
        IN \A i \in DOMAIN h :
              IF h[i].path \in Whitelisted
              THEN h[i].ok
              ELSE h[i].ok <=>
                      Cardinality({m \in InWindowBefore(h, i, h[i].t) :
                                      h[m].path \notin Whitelisted}) < limit

InSection ==
    {p \in Procs : pc[p] \in {"prune", "decide", "unlock"}}
        \cup (IF rpc \in {"sweep", "unlock"} THEN {Reaper} ELSE {})

\* C14: at most one goroutine (an allow call, for whatever key, or the reaper
\* cycle) is inside the section at any time, and a goroutine inside it holds
\* the lock, so every read and write of the map is made under the lock.
C14_MutualExclusion ==
    /\ Cardinality(InSection) <= 1
    /\ InSection = (IF mu = Free THEN {} ELSE {mu})

\* C14 witness: one allow call is inside the section while another allow
\* call, for a different key, and a reaper cycle are both waiting to enter.
C14_Witness ==
    \E p \in Procs, q \in Procs :
        /\ p # q
        /\ pc[p] = "decide" /\ mu = p
        /\ pc[q] = "lock" /\ key[q] # key[p]
        /\ rpc = "lock"

\* A step of a goroutine that is in allow or in a reaper cycle.
LimiterStep ==
    \/ \E p \in Procs :
          AllowLock(p) \/ AllowPrune(p) \/ AllowDecide(p) \/ AllowUnlock(p)
    \/ ReaperLock \/ ReaperSweep \/ ReaperUnlock

\* Some goroutine is in allow or in a reaper cycle.
LimiterBusy ==
    \/ \E p \in Procs : pc[p] \in {"lock", "prune", "decide", "unlock"}
    \/ rpc \in {"lock", "sweep", "unlock"}

\* C15: under fair scheduling every allow call that has begun returns its
\* decision, every reaper cycle that has begun finishes with the lock
\* released, and in no reachable state are the goroutines that are in allow
\* or in a reaper cycle all unable to take a step.
C15_NoIndefiniteBlocking ==
    /\ \A p \in Procs :
          (pc[p] = "lock") ~> (pc[p] = "respond" /\ mu # p)
    /\ (rpc = "lock") ~> (rpc = "wait" /\ mu # Reaper)
    /\ [](LimiterBusy => ENABLED <<LimiterStep>>_vars)

\* C15 witness: both request goroutines are blocked in Lock while the reaper
\* holds the lock.
C15_Witness ==
    /\ mu = Reaper /\ rpc = "sweep"
    /\ \A p \in Procs : pc[p] = "lock"

\* A limiter whose reaper never runs, fed the calls of one key at the
\* instants ts: for every call, its decision and the ledger it leaves.
RECURSIVE NeverReaped(_, _, _)
NeverReaped(ts, i, ledger) ==
    IF i > Len(ts) THEN <<>>
    ELSE LET v == SelectSeq(ledger, LAMBDA t : t > ts[i] - window)
             ok == Len(v) < limit
             after == IF ok THEN Append(v, ts[i]) ELSE v
         IN <<[ok |-> ok, ledger |-> after]>> \o NeverReaped(ts, i + 1, after)

\* The instants of the calls made so far for key k.
CallTimes(k) == [i \in DOMAIN hist[k] |-> hist[k][i].t]

\* The ledger the limiter without reaper holds for key k.
UnreapedLedger(k) ==
    LET run == NeverReaped(CallTimes(k), 1, <<>>)
    IN IF run = <<>> THEN <<>> ELSE run[Len(run)].ledger

\* C16: with the reaper running between the calls, every call gets the
\* decision the limiter without reaper gives to the same timed calls, every
\* open call decides from the pruned ledger that limiter would decide from,
\* and the map differs from that limiter's only in expired timestamps (and
\* so in keys that hold nothing else).
C16_ReaperTransparent ==
    /\ \A k \in Keys :
          LET run == NeverReaped(CallTimes(k), 1, <<>>)
          IN /\ \A i \in DOMAIN hist[k] : hist[k][i].ok = run[i].ok
             /\ SelectSeq(Lookup(requests, k), LAMBDA t : t > clock - window)
                   = SelectSeq(UnreapedLedger(k),
                               LAMBDA t : t > clock - window)
    /\ \A p \in Procs :
          pc[p] = "decide" =>
              valid[p] = SelectSeq(UnreapedLedger(key[p]),
                                   LAMBDA t : t > now[p] - window)

\* C16 witness: the reaper has just removed a key that the limiter without
\* reaper still holds, and a call for that key is waiting to be decided.
C16_Witness ==
    \E p \in Procs :
        /\ rpc = "unlock" /\ mu = Reaper
        /\ pc[p] = "lock"
        /\ key[p] \notin DOMAIN requests
        /\ UnreapedLedger(key[p]) # <<>>

\* Every timestamp of ledger lies in the window trailing the instant n:
\* strictly after n - window, and not after n.
InsideWindow(ledger, n) ==
    \A j \in DOMAIN ledger : n - window < ledger[j] /\ ledger[j] <= n

\* C17 (limit and window positive): when an allow call has just stored the
\* ledger of its key, admitted or refused, that ledger holds only timestamps
\* inside the window trailing the instant the call read; and the list a call
\* is about to decide from holds only such timestamps.
C17_LedgerPrunedAfterCall ==
    ValidConfig =>
        \A p \in Procs :
            /\ pc[p] = "unlock" =>
                  InsideWindow(Lookup(requests, key[p]),
                               hist[key[p]][Len(hist[key[p]])].t)
            /\ pc[p] = "decide" => InsideWindow(valid[p], now[p])

\* C17 witness: a call has just stored a ledger from which an earlier
\* admission of its key, expired by now, has been dropped.
C17_Witness ==
    \E p \in Procs :
        /\ pc[p] = "unlock"
        /\ LET h == hist[key[p]]
           IN /\ Len(h) >= 2
              /\ h[1].ok /\ h[1].t <= h[Len(h)].t - window
              /\ Lookup(requests, key[p]) # <<>>
              /\ \A j \in DOMAIN requests[key[p]] :
                    requests[key[p]][j] # h[1].t

\* The set of the elements of a sequence.
Range(seq) == {seq[j] : j \in DOMAIN seq}

\* What a step may do to the entry of key k: drop expired timestamps from
\* its ledger, keeping the others in their order; append the instant read
\* by the call when, and only when, the step is an admission for k; remove
\* the key only when nothing is left after pruning; create it only by an
\* admission.
KeyChangeAllowed(k) ==
    LET old == Lookup(requests, k)
        new == Lookup(requests', k)
        admitted == /\ Len(hist'[k]) = Len(hist[k]) + 1
                    /\ hist'[k][Len(hist'[k])].ok
        kept == IF admitted /\ new # <<>>
                THEN SubSeq(new, 1, Len(new) - 1) ELSE new
    IN /\ admitted =>
             new # <<>> /\ new[Len(new)] = hist'[k][Len(hist'[k])].t
       /\ kept = SelectSeq(old, LAMBDA t : t \in Range(kept))
       /\ \A t \in Range(old) \ Range(kept) : t <= clock - window
       /\ (k \in DOMAIN requests /\ k \notin DOMAIN requests') =>
             kept = <<>> /\ ~admitted
       /\ (k \notin DOMAIN requests /\ k \in DOMAIN requests') => admitted

\* C18 (limit and window positive): no step changes limit or window, and
\* every step changes the map, if at all, only by appending the current
\* instant on an admission, dropping expired timestamps and removing a key
\* left empty by pruning; no ledger is reordered and no unexpired timestamp
\* is removed.
C18_OnlyThreeKindsOfChange ==
    [][/\ limit' = limit
       /\ window' = window
       /\ ValidConfig => \A k \in Keys : KeyChangeAllowed(k)]_vars

\* C18 witness: changes of all three kinds have been made: one key was
\* removed by the reaper, another was removed, or pruned, and appended to
\* again.
C18_Witness ==
    \E a \in Keys, b \in Keys :
        /\ a # b
        /\ Admitted(hist[a]) # {} /\ a \notin DOMAIN requests
        /\ b \in DOMAIN requests /\ requests[b] # <<>>
        /\ Len(hist[b]) >= 2 /\ hist[b][1].ok
        /\ hist[b][1].t \notin Range(requests[b])

\* C19: a call for a key at the instant now is admitted if and only if,
\* counting over the key's complete history, fewer than limit earlier calls
\* were admitted at instants strictly greater than now - window; an
\* admission exactly at now - window is not counted.
C19_DecidesAsFullHistory ==
    \A k \in Keys :
        \A i \in DOMAIN hist[k] :
            hist[k][i].ok <=>
                Cardinality({m \in 1..(i - 1) :
                                /\ hist[k][m].ok
                                /\ hist[k][m].t > hist[k][i].t - window})
                    < limit

\* C19 witness: a key at its limit is admitted again exactly one window
\* after its last admission, the ledger having been pruned in between.
C19_Witness ==
    \E k \in Keys :
        /\ limit = 1 /\ window >= 1
        /\ Len(hist[k]) = 3
        /\ hist[k][1].ok /\ ~hist[k][2].ok /\ hist[k][3].ok
        /\ hist[k][2].t < hist[k][1].t + window
        /\ hist[k][3].t = hist[k][1].t + window

\* C20: the step in which an allow call is refused leaves, as the ledger of
\* its key, exactly the ledger that was there with the timestamps not after
\* now - window removed (now being the instant the call read), the refused
\* call's instant not added, and leaves every other key's entry as it was.
C20_RefusedCallRecordsNothing ==
    [][\A p \in Procs :
          (pc[p] = "decide" /\ pc'[p] = "unlock" /\ ~result'[p]) =>
              /\ Lookup(requests', key[p])
                    = SelectSeq(Lookup(requests, key[p]),
                                LAMBDA t : t > now[p] - window)
              /\ \A k \in Keys \ {key[p]} :
                    /\ (k \in DOMAIN requests') = (k \in DOMAIN requests)
                    /\ Lookup(requests', k) = Lookup(requests, k)]_vars

\* C20 witness: a call has just been refused at an instant later than every
\* admission of its key, and the stored ledger holds the limit admissions
\* from before and nothing for the refused call.
C20_Witness ==
    \E p \in Procs :
        /\ pc[p] = "unlock" /\ ~result[p]
        /\ limit >= 1
        /\ Len(requests[key[p]]) = limit
        /\ \A j \in DOMAIN requests[key[p]] :
              requests[key[p]][j] < hist[key[p]][Len(hist[key[p]])].t

\* C21: no step an allow call takes, from its Lock to its return, changes
\* the entry of a key other than the call's own: such an entry is neither
\* created nor deleted, and its ledger stays as it was.
C21_OtherKeysUntouched ==
    [][\A p \in Procs :
          (pc[p] \in {"lock", "prune", "decide", "unlock"} /\ pc'[p] # pc[p])
              => \A k \in Keys \ {key[p]} :
                    /\ (k \in DOMAIN requests') = (k \in DOMAIN requests)
                    /\ Lookup(requests', k) = Lookup(requests, k)]_vars

\* C21 witness: a call has just stored the ledger of its key, admitted, while
\* another key with admissions of its own is in the map.
C21_Witness ==
    \E p \in Procs, k \in Keys :
        /\ pc[p] = "unlock" /\ result[p]
        /\ k # key[p]
        /\ k \in DOMAIN requests /\ requests[k] # <<>>
        /\ requests[k] # requests[key[p]]

\* The timestamps of a ledger never decrease from one to the next.
OldestFirst(ledger) ==
    \A i \in DOMAIN ledger : \A j \in DOMAIN ledger :
        i < j => ledger[i] <= ledger[j]

\* What is left of old after a prefix of it is dropped.
Suffixes(old) == {SubSeq(old, d + 1, Len(old)) : d \in 0..Len(old)}

\* C22: in every reachable state every ledger in the map is ordered
\* oldest-first, however the callers race; the list a call has pruned is the
\* ledger without a prefix of it, and every step leaves of each ledger a
\* suffix (followed, on an admission, by the appended instant).
C22_LedgerOldestFirst ==
    /\ [](\A k \in DOMAIN requests : OldestFirst(requests[k]))
    /\ [](\A p \in Procs :
             pc[p] = "decide" =>
                 valid[p] \in Suffixes(Lookup(requests, key[p])))
    /\ [][\A k \in Keys :
             LET new == Lookup(requests', k)
             IN \/ new \in Suffixes(Lookup(requests, k))
                \/ /\ new # <<>>
                   /\ SubSeq(new, 1, Len(new) - 1)
                         \in Suffixes(Lookup(requests, k))]_vars

\* C22 witness: two calls for one key raced (the second was begun before the
\* first was decided) and were admitted at different instants.
C22_Witness ==
    \E q \in Procs :
        /\ pc[q] = "unlock" /\ seen[q] = 0
        /\ Len(hist[key[q]]) = 2
        /\ Len(requests[key[q]]) = 2
        /\ requests[key[q]][1] < requests[key[q]][2]

\* C23: on a limiter with limit >= 1 no ledger in the map ever holds more
\* than limit timestamps, however many calls were made for its key.
C23_LedgerAtMostLimit ==
    limit >= 1 => \A k \in DOMAIN requests : Len(requests[k]) <= limit

\* C23 witness: more calls than the limit were made for a key, by racing
\* callers, and its ledger holds exactly limit timestamps.
C23_Witness ==
    \E q \in Procs :
        /\ pc[q] = "unlock" /\ seen[q] = 0 /\ ~result[q]
        /\ limit >= 1
        /\ Len(hist[key[q]]) > limit
        /\ Len(requests[key[q]]) = limit

\* C24: the pass of a reaper cycle leaves, for every key, exactly the
\* timestamps of its ledger that are strictly after now - window (now being
\* the instant the pass reads), in their order, and leaves the key in the
\* map if and only if it was there and some such timestamp remains.
C24_ReaperPrunesAsAllow ==
    [][(rpc = "sweep" /\ rpc' = "unlock") =>
          \A k \in Keys :
              LET inside == SelectSeq(Lookup(requests, k),
                                      LAMBDA t : t > clock - window)
              IN /\ Lookup(requests', k) = inside
                 /\ (k \in DOMAIN requests') <=>
                       (k \in DOMAIN requests /\ inside # <<>>)]_vars

\* C24 witness: a pass has just deleted one key, all of whose timestamps had
\* expired, and kept another, whose ledger is still inside the window.
C24_Witness ==
    \E a \in Keys, b \in Keys :
        /\ rpc = "unlock"
        /\ Admitted(hist[a]) # {} /\ a \notin DOMAIN requests
        /\ b \in DOMAIN requests /\ requests[b] # <<>>
        /\ \A j \in DOMAIN requests[b] : requests[b][j] > rnow - window

\* C25 as stated (window positive): every reaper cycle runs at the instant
\* of its tick, the first one window after construction and each one window
\* after the one before: a tick or a cycle that is pending has not been
\* overtaken by the clock, and a pass reads the instant one window before
\* the next tick.
C25_CyclesOnCadence ==
    window > 0 =>
        /\ (tickerC = 1 \/ rpc \in {"lock", "sweep"}) =>
              clock = tickerNext - window
        /\ rpc = "unlock" =>
              rnow % window = 0 /\ rnow >= window
                 /\ tickerNext = rnow + window

\* C25 amended (window positive): the ticker fires at the instants window,
\* 2 * window, ... after the cleanup goroutine has started, none skipped by
\* the clock; a cycle begins only by taking a buffered tick, so never before
\* the first tick and at most once per tick fired; a tick that comes due
\* while one is still buffered adds no cycle.
C25_TicksOnCadence ==
    /\ [](window > 0 /\ rpc \notin {"start", "dead"} =>
             /\ tickerNext % window = 0 /\ tickerNext >= window
             /\ tickerNext - window <= clock /\ clock <= tickerNext
             /\ tickerC \in {0, 1}
             /\ rpc \in {"lock", "sweep"} => clock >= window
             /\ rpc = "unlock" => rnow >= window /\ rnow <= clock)
    /\ [][window > 0 =>
             /\ (rpc # "start" /\ tickerNext' # tickerNext) =>
                   /\ clock = tickerNext
                   /\ tickerNext' = tickerNext + window
                   /\ tickerC' = 1
             /\ (rpc = "wait" /\ rpc' = "lock") =>
                   tickerC = 1 /\ tickerC' = 0
             /\ clock' # clock => clock < tickerNext]_vars

\* C25 witness: the second tick fired one window after the first and its
\* cycle has made its pass at that instant.
C25_Witness ==
    /\ window > 0
    /\ rpc = "unlock"
    /\ rnow = 2 * window
    /\ tickerNext = 3 * window

\* C26: a request goroutine that is outside allow (about to write the 429 or
\* to call c.Next, inside the downstream handler, or done) does not hold the
\* lock; while it is there, a waiting allow call of another request or a
\* waiting reaper cycle can take the lock as soon as nobody is inside the
\* section.
C26_LockNotHeldInCallerCode ==
    \A p \in Procs :
        pc[p] \in {"respond", "next", "done"} =>
            /\ mu # p
            /\ \A q \in Procs \ {p} :
                  (pc[q] = "lock" /\ InSection = {}) => ENABLED AllowLock(q)
            /\ (rpc = "lock" /\ InSection = {}) => ENABLED ReaperLock

\* C26 witness: while the downstream handler of one request is running,
\* another request's allow call is inside the section.
C26_Witness ==
    \E p \in Procs, q \in Procs :
        /\ pc[p] = "next"
        /\ pc[q] = "decide" /\ mu = q

\* No allow call for key k is in progress.
NoCallFor(k) ==
    \A p \in Procs :
        pc[p] \in {"lock", "prune", "decide", "unlock"} => key[p] # k

\* Key k is in the map and every timestamp of its ledger has expired.
AllExpired(k) ==
    /\ k \in DOMAIN requests
    /\ \A j \in DOMAIN requests[k] : requests[k][j] <= clock - window

\* A tick is buffered, or the cycle that took it has not yet made its pass.
CyclePending == tickerC = 1 \/ rpc \in {"lock", "sweep"}

\* C27 as stated: a key whose last call was an admission, and for which no
\* call is in progress, is out of the map once more than 2 * window has
\* passed since that admission.
C27_GoneWithinTwoWindows ==
    \A k \in Keys :
        (/\ hist[k] # <<>> /\ hist[k][Len(hist[k])].ok
         /\ NoCallFor(k)
         /\ clock > hist[k][Len(hist[k])].t + 2 * window)
            => k \notin DOMAIN requests

\* C27 amended: once every timestamp of a key has expired, a reaper cycle is
\* pending or the next tick comes due less than 2 * window after the key's
\* newest timestamp; the pass of any cycle removes every key whose newest
\* timestamp has expired, at once; and under fair scheduling a pending cycle
\* makes its pass, so the key leaves the map unless new calls refill it.
C27_RemovedByFirstPassAfterExpiry ==
    /\ [](\A k \in Keys :
             (AllExpired(k) /\ requests[k] # <<>>) =>
                 \/ CyclePending
                 \/ tickerNext < requests[k][Len(requests[k])] + 2 * window)
    /\ [][(rpc = "sweep" /\ rpc' = "unlock") =>
             \A k \in Keys : AllExpired(k) => k \notin DOMAIN requests']_vars
    /\ \A k \in Keys :
          (AllExpired(k) /\ CyclePending)
              ~> (k \notin DOMAIN requests \/ ~AllExpired(k))

\* C27 witness: a pass made at least one window and at most two windows
\* after a key's last call, an admission, has just removed the key.
C27_Witness ==
    \E k \in Keys :
        /\ rpc = "unlock"
        /\ hist[k] # <<>> /\ hist[k][Len(hist[k])].ok
        /\ NoCallFor(k)
        /\ k \notin DOMAIN requests
        /\ rnow >= hist[k][Len(hist[k])].t + window
        /\ rnow <= hist[k][Len(hist[k])].t + 2 * window

\* C28: on a limiter with limit >= 1, whenever the lock is free (no allow
\* call and no reaper cycle is inside the section), and right after the
\* pass of a cycle, no key in the map has an empty ledger; a call that has
\* just stored leaves its key in the map with at least one timestamp when
\* admitted and at least limit when refused, so a refusal never creates an
\* entry.
C28_NoEmptyLedgerInMap ==
    limit >= 1 =>
        /\ (mu = Free \/ rpc = "unlock") =>
              \A k \in DOMAIN requests : requests[k] # <<>>
        /\ \A p \in Procs :
              pc[p] = "unlock" =>
                  /\ key[p] \in DOMAIN requests
                  /\ Len(requests[key[p]]) >= (IF result[p] THEN 1 ELSE limit)
                  /\ ~result[p] => hist[key[p]][1].ok

\* C28 witness: with nothing in progress, after a pass has removed a key
\* whose timestamps had expired, another key is in the map, refused on its
\* last call, with its ledger full.
C28_Witness ==
    \E a \in Keys, b \in Keys :
        /\ limit >= 1
        /\ mu = Free /\ rpc = "wait"
        /\ \A p \in Procs : pc[p] \in {"idle", "respond", "next", "done"}
        /\ Admitted(hist[a]) # {} /\ a \notin DOMAIN requests
        /\ b \in DOMAIN requests /\ Len(requests[b]) = limit
        /\ ~hist[b][Len(hist[b])].ok

\* The admissions of h, up to and including call i, that are inside the
\* window as of call i.
LiveAt(h, i) == {m \in 1..i : h[m].ok /\ h[m].t > h[i].t - window}

\* The instant of the oldest of them.
OldestLive(h, i) ==
    LET m == CHOOSE x \in LiveAt(h, i) :
                 \A y \in LiveAt(h, i) : h[x].t <= h[y].t
    IN h[m].t

\* C29 as stated (limit >= 1): when after some call of a key its quota is
\* full, the oldest admission inside the window being at t1, the key's first
\* later call made strictly after t1 + window is admitted.
C29_FirstCallAfterExpiryAdmitted ==
    \A k \in Keys :
        LET h == hist[k]
        IN \A i \in DOMAIN h : \A j \in DOMAIN h :
              (/\ limit >= 1
               /\ i < j
               /\ Cardinality(LiveAt(h, i)) = limit
               /\ h[j].t > OldestLive(h, i) + window
               /\ \A m \in (i + 1)..(j - 1) :
                     ~(h[m].t > OldestLive(h, i) + window))
                  => h[j].ok

\* C29 amended (limit >= 1): when after some call of a key its quota is
\* full, the oldest admission inside the window being at t1, every later
\* call made before t1 + window is refused and the key's first later call
\* made at or after t1 + window is admitted, however many calls were refused
\* in between.
C29_FirstCallAtExpiryAdmitted ==
    \A k \in Keys :
        LET h == hist[k]
        IN \A i \in DOMAIN h : \A j \in DOMAIN h :
              (/\ limit >= 1
               /\ i < j
               /\ Cardinality(LiveAt(h, i)) = limit
               /\ \A m \in (i + 1)..(j - 1) :
                     h[m].t < OldestLive(h, i) + window)
                  => (h[j].ok <=> h[j].t >= OldestLive(h, i) + window)

\* C29 witness: a key at its limit was refused inside the window of its
\* oldest admission and admitted on its next call, made when that admission
\* expired.
C29_Witness ==
    \E k \in Keys :
        /\ limit >= 1
        /\ Len(hist[k]) = 3
        /\ Cardinality(LiveAt(hist[k], 1)) = limit
        /\ hist[k][2].t > hist[k][1].t
        /\ hist[k][2].t < hist[k][1].t + window
        /\ ~hist[k][2].ok
        /\ hist[k][3].t >= hist[k][1].t + window
        /\ hist[k][3].ok

\* C30: a limiter built with limit <= 0 and window > 0 is there and running
\* (nothing fails at construction or later); every allow call is refused; a
\* call for a key that is not in the map puts it there with an empty ledger;
\* every ledger in the map is empty; and a key leaves the map only in the
\* pass of a reaper cycle, which empties the map.
C30_NonPositiveLimitRefusesAll ==
    /\ []((limit <= 0 /\ window > 0) =>
             /\ ~crashed /\ rpc # "dead"
             /\ \A k \in Keys : Admitted(hist[k]) = {}
             /\ \A k \in DOMAIN requests : requests[k] = <<>>
             /\ \A p \in Procs :
                   pc[p] = "unlock" =>
                       ~result[p] /\ key[p] \in DOMAIN requests)
    /\ [][(limit <= 0 /\ window > 0) =>
             /\ \A p \in Procs :
                   (pc[p] = "decide" /\ pc'[p] = "unlock"
                       /\ key[p] \notin DOMAIN requests)
                      => /\ key[p] \in DOMAIN requests'
                         /\ requests'[key[p]] = <<>>
             /\ (rpc = "sweep" /\ rpc' = "unlock") => DOMAIN requests' = {}
             /\ ~(rpc = "sweep" /\ rpc' = "unlock") =>
                   DOMAIN requests \subseteq DOMAIN requests']_vars

\* C30 witness: on such a limiter a request has been answered 429, its key
\* sits in the map with an empty ledger, and another key, refused earlier,
\* has been removed by a reaper cycle.
C30_Witness ==
    \E p \in Procs, a \in Keys, b \in Keys :
        /\ limit <= 0 /\ window > 0
        /\ pc[p] = "done" /\ resp[p].status = 429
        /\ hist[a] # <<>> /\ a \notin DOMAIN requests
        /\ b \in DOMAIN requests /\ requests[b] = <<>>

====
